---- MODULE Spec2Model ----
(***************************************************************************)
(* Token provider (SalesforceAuth) and REST client (SalesforceRestClient)  *)
(* of the Salesforce MCP server, as a state machine.                       *)
(*                                                                         *)
(* JavaScript runs each piece of code between two `await`s to completion;  *)
(* at an `await` any other ready task may run.  Every action below is one  *)
(* such run-to-completion segment of one task.                             *)
(***************************************************************************)
EXTENDS Integers, Sequences, FiniteSets, TLC

VARIABLES
  config,          \* SalesforceAuth.config (immutable after construction)
  accessToken,     \* SalesforceAuth.accessToken
  instanceUrl,     \* SalesforceAuth.instanceUrl
  tokenExpiresAt,  \* SalesforceAuth.tokenExpiresAt
  now,             \* Date.now()
  task,            \* per caller: the call in flight, its locals and its outcome
  calls,           \* number of calls started so far
  oauthLog,        \* token-endpoint requests issued so far
  origin,          \* history: which authentication wrote each field of the slot
  everReturned,    \* history: some getAccessToken call has returned a token
  goodUntil,       \* history: expiry cached by the latest token-bearing write
  goodUrl,         \* history: instance URL of the latest token-bearing write
  tools            \* SalesforceMCPServer.tools

authVars == <<config, accessToken, instanceUrl, tokenExpiresAt, now, task,
              calls, oauthLog, origin, everReturned, goodUntil, goodUrl,
              tools>>

vars == authVars

-----------------------------------------------------------------------------
(* Bounds *)

MaxCalls == 3
MaxTicks == 2
MaxOrgs == 2

Tasks == {"t1", "t2"}

-----------------------------------------------------------------------------
(* JavaScript values *)

Undefined == "undefined"
NoTime == -1

\* mutant: the test that takes every value for a token
TruthyAlways(v) == TRUE

\* `if (v)` on a string-or-undefined value
Truthy(v) == v # Undefined /\ v # ""

\* `if (n)` on a number-or-undefined value
TruthyNum(n) == n # NoTime /\ n # 0

\* `a || b`
OrElse(a, b) == IF Truthy(a) THEN a ELSE b

TTL == 3600000
TickStep == TTL \div 2

-----------------------------------------------------------------------------
(* Configurations *)

LoginUrl == "https://login.salesforce.com"

BaseConfig ==
  [instanceUrl |-> LoginUrl, clientId |-> "client-id", clientSecret |-> Undefined,
   username |-> Undefined, password |-> Undefined, securityToken |-> Undefined,
   privateKey |-> Undefined, subject |-> Undefined, targetOrg |-> Undefined,
   apiVersion |-> "59.0"]

WithJwt(c) == [c EXCEPT !.privateKey = "PEM", !.subject = "svc@example.com"]
WithPassword(c) == [c EXCEPT !.username = "u@example.com", !.password = "pw",
                             !.securityToken = "st"]

Configs ==
  { BaseConfig,
    WithJwt(BaseConfig),
    WithPassword(BaseConfig),
    WithJwt(WithPassword(BaseConfig)),
    [WithPassword(BaseConfig) EXCEPT !.privateKey = "PEM"],
    [WithJwt(BaseConfig) EXCEPT !.targetOrg = "dev"],
    [BaseConfig EXCEPT !.targetOrg = "b@example.com"] }

\* the configurations of the REST client: one of them sets another API version
ClientConfigs ==
  {[BaseConfig EXCEPT !.apiVersion = "60.0"], WithPassword(BaseConfig)}

HasJwtFields(c) == Truthy(c.privateKey) /\ Truthy(c.subject)
HasPasswordFields(c) == Truthy(c.username) /\ Truthy(c.password)

-----------------------------------------------------------------------------
(* What `sf org list --json` can print *)

OrgDefault ==
  [alias |-> "dev", username |-> "a@example.com", isDefaultUsername |-> TRUE,
   connectedStatus |-> "Connected", accessToken |-> "00D-cli-a",
   instanceUrl |-> "https://a.my.salesforce.com"]
OrgOther ==
  [alias |-> Undefined, username |-> "b@example.com", isDefaultUsername |-> FALSE,
   connectedStatus |-> "Connected", accessToken |-> "00D-cli-b",
   instanceUrl |-> "https://b.my.salesforce.com"]
OrgExpired ==
  [alias |-> "dev", username |-> "c@example.com", isDefaultUsername |-> FALSE,
   connectedStatus |-> "RefreshTokenAuthError", accessToken |-> "00D-cli-c",
   instanceUrl |-> "https://c.my.salesforce.com"]
OrgNoToken ==
  [alias |-> "qa", username |-> "d@example.com", isDefaultUsername |-> FALSE,
   connectedStatus |-> "Connected", accessToken |-> Undefined,
   instanceUrl |-> "https://d.my.salesforce.com"]

Orgs == {OrgDefault, OrgOther, OrgExpired, OrgNoToken}

SeqsUpTo(S, n) == UNION {[1..k -> S] : k \in 0..n}

OrgListResults ==
  { [nonScratchOrgs |-> a, devHubs |-> <<>>, scratchOrgs |-> b,
     sandboxes |-> <<>>, other |-> <<>>] :
       a \in SeqsUpTo(Orgs, MaxOrgs), b \in SeqsUpTo({OrgOther, OrgNoToken}, 1) }

CliOutputs ==
  { [kind |-> "ENOENT"], [kind |-> "exit"], [kind |-> "malformed"] }
  \cup { [kind |-> "json", status |-> 1, result |-> r] :
           r \in {rr \in OrgListResults : rr.nonScratchOrgs = <<>> /\ rr.scratchOrgs = <<>>} }
  \cup { [kind |-> "json", status |-> 0, result |-> r] : r \in OrgListResults }

-----------------------------------------------------------------------------
(* authenticateWithSfCli *)

AllOrgs(result) ==
  result.nonScratchOrgs \o result.devHubs \o result.scratchOrgs
    \o result.sandboxes \o result.other

\* mutant: the last matching element instead of the first
FindLastIndex(matching) ==
  IF matching = {} THEN 0
  ELSE CHOOSE i \in matching : \A j \in matching : i >= j

\* Array.prototype.find: the first of the indexes whose element satisfies the
\* test, 0 if there is none
FindIndex(matching) ==
  IF matching = {} THEN 0
  ELSE CHOOSE i \in matching : \A j \in matching : i <= j

MatchesTarget(c, org) == org.alias = c.targetOrg \/ org.username = c.targetOrg
IsDefault(org) == org.isDefaultUsername = TRUE
IsConnected(org) == org.connectedStatus = "Connected"

\* index of the selected org in allOrgs, 0 when none is selected
SelectOrg(c, allOrgs) ==
  LET Where(P(_)) == {i \in DOMAIN allOrgs : P(allOrgs[i])}
      Targeted(o) == MatchesTarget(c, o)
  IN IF Truthy(c.targetOrg)
       THEN FindIndex(Where(Targeted))
       ELSE IF FindIndex(Where(IsDefault)) # 0
              THEN FindIndex(Where(IsDefault))
              ELSE FindIndex(Where(IsConnected))

Thrown(msg) == [threw |-> TRUE, error |-> msg]

\* the outcome of one run of authenticateWithSfCli on CLI output `out`
SfCli(c, out) ==
  IF out.kind = "ENOENT"
    THEN Thrown("SF CLI is not installed or not available in PATH")
  ELSE IF out.kind = "exit" THEN Thrown("Command failed: sf org list --json")
  ELSE IF out.kind = "malformed" THEN Thrown("Unexpected token in JSON")
  ELSE IF out.status # 0 THEN Thrown("Failed to get org list from SF CLI")
  ELSE LET allOrgs == AllOrgs(out.result)
           i == SelectOrg(c, allOrgs)
       IN IF Len(allOrgs) = 0 THEN Thrown("No authenticated orgs found in SF CLI")
          ELSE IF i = 0
            THEN IF Truthy(c.targetOrg)
                   THEN Thrown("Org with alias or username not found in SF CLI")
                   ELSE Thrown("No default or connected org found in SF CLI")
          ELSE IF ~IsConnected(allOrgs[i]) THEN Thrown("Org is not connected")
          ELSE [threw |-> FALSE, accessToken |-> allOrgs[i].accessToken,
                instanceUrl |-> allOrgs[i].instanceUrl]

\* every outcome the CLI strategy can have under configuration c
CliOutcomes ==
  [c \in Configs \cup ClientConfigs |-> {SfCli(c, out) : out \in CliOutputs}]

-----------------------------------------------------------------------------
(* getAccessToken, authenticateWithJWT, authenticateWithUsernamePassword *)

\* mutant: a cached token is used whatever its age
CacheHitAnyAge(tok, exp, t) == Truthy(tok) /\ TruthyNum(exp)

\* the cache test that opens getAccessToken
CacheHit(tok, exp, t) == Truthy(tok) /\ TruthyNum(exp) /\ t < exp

\* mutant: username/password is tested before the JWT fields
FallbackPasswordFirst(c) ==
  IF HasPasswordFields(c) THEN "password"
  ELSE IF HasJwtFields(c) THEN "jwt"
  ELSE "invalid"

\* mutant: the final `else` that rejects the configuration is missing
FallbackNoReject(c) ==
  IF HasPasswordFields(c) THEN "password" ELSE "jwt"

\* the fallback branch that never reaches an exchange
FallbackNone(c) == "invalid"

\* the branch taken after the CLI attempt
FallbackStrategy(c) ==
  IF HasJwtFields(c) THEN "jwt"
  ELSE IF HasPasswordFields(c) THEN "password"
  ELSE "invalid"

\* mutant: the token endpoint is built on the resolved instance URL
TokenEndpointResolved(c) ==
  OrElse(instanceUrl, c.instanceUrl) \o "/services/oauth2/token"

TokenEndpoint(c) == c.instanceUrl \o "/services/oauth2/token"

JwtGrant == "urn:ietf:params:oauth:grant-type:jwt-bearer"
PasswordGrant == "password"

\* mutant: the JWT exchange is posted with the password grant type
JwtRequestAsPassword(c) ==
  [url |-> TokenEndpoint(c), grant_type |-> PasswordGrant, aud |-> c.instanceUrl,
   iss |-> c.clientId, sub |-> c.subject]

JwtRequest(c) ==
  [url |-> TokenEndpoint(c), grant_type |-> JwtGrant, aud |-> c.instanceUrl,
   iss |-> c.clientId, sub |-> c.subject]

PasswordRequest(c) ==
  [url |-> TokenEndpoint(c), grant_type |-> PasswordGrant, aud |-> Undefined,
   iss |-> c.clientId, sub |-> c.username]

RequestFor(strategy, c) ==
  IF strategy = "jwt" THEN JwtRequest(c) ELSE PasswordRequest(c)

\* the guard that opens authenticateWithJWT / authenticateWithUsernamePassword
StrategyReady(strategy, c) ==
  IF strategy = "jwt" THEN Truthy(c.privateKey) /\ Truthy(c.subject)
  ELSE Truthy(c.username) /\ Truthy(c.password)

NotReadyError(strategy) ==
  IF strategy = "jwt" THEN "JWT authentication requires privateKey and subject"
  ELSE "Username/password authentication requires username and password"

ConfigError ==
  "Invalid authentication configuration. Provide either SF CLI authentication, JWT (privateKey, subject) or username/password credentials."
NoTokenError == "Failed to obtain access token"

\* what the token endpoint can answer
OAuthResponses ==
  { [ok |-> TRUE, data |-> [access_token |-> "00D-oauth",
                            instance_url |-> "https://na1.salesforce.com"]],
    [ok |-> TRUE, data |-> [access_token |-> Undefined, instance_url |-> Undefined]],
    [ok |-> FALSE, error |-> "Request failed with status code 400"] }

\* mutant: the catch block wraps the error in a new message
CatchWrapped(error) == "Authentication failed: " \o error

\* `catch (error) { throw error; }` around the token request
CatchRethrow(error) == error

\* the assignments that end a successful authentication, as field |-> value
Session(tok, url, t) ==
  [accessToken |-> tok, instanceUrl |-> url, tokenExpiresAt |-> t + TTL]

\* mutant: the CLI strategy forgets to store the org's instance URL
StoreCliPartial(r, t) ==
  [accessToken |-> r.accessToken, tokenExpiresAt |-> t + TTL]

\* mutant: an OAuth strategy stores the token and the expiry only
StoreOAuthPartial(data, t) ==
  [accessToken |-> data.access_token, tokenExpiresAt |-> t + TTL]

\* what the CLI strategy assigns once it has selected a connected org
StoreCli(r, t) == Session(r.accessToken, r.instanceUrl, t)

\* what an OAuth strategy assigns once the token endpoint has answered
StoreOAuth(data, t) == Session(data.access_token, data.instance_url, t)

SlotFields == {"accessToken", "instanceUrl", "tokenExpiresAt"}

Slot == [accessToken |-> accessToken, instanceUrl |-> instanceUrl,
         tokenExpiresAt |-> tokenExpiresAt]

\* the slot after the assignments `w`
Assigned(w) == [f \in SlotFields |-> IF f \in DOMAIN w THEN w[f] ELSE Slot[f]]

\* history: every assigned field is stamped with the authentication that wrote it
Stamped(w, tag) == [f \in SlotFields |-> IF f \in DOMAIN w THEN tag ELSE origin[f]]

Tag(t, by) == [task |-> t, by |-> by]

Write(w, tag) ==
  /\ accessToken' = Assigned(w).accessToken
  /\ instanceUrl' = Assigned(w).instanceUrl
  /\ tokenExpiresAt' = Assigned(w).tokenExpiresAt
  /\ origin' = Stamped(w, tag)
  /\ goodUntil' = IF Truthy(Assigned(w).accessToken)
                    THEN Assigned(w).tokenExpiresAt ELSE goodUntil
  /\ goodUrl' = IF Truthy(Assigned(w).accessToken)
                  THEN Assigned(w).instanceUrl ELSE goodUrl

NoWrite ==
  UNCHANGED <<accessToken, instanceUrl, tokenExpiresAt, origin, goodUntil, goodUrl>>

-----------------------------------------------------------------------------
(* Strings, computed as JavaScript computes them *)

UpperCase == "ABCDEFGHIJKLMNOPQRSTUVWXYZ"
LowerCase == "abcdefghijklmnopqrstuvwxyz"

CharAt(s, i) == SubSeq(s, i, i)
Tail1(s) == IF Len(s) <= 1 THEN "" ELSE SubSeq(s, 2, Len(s))

IndexIn(alphabet, c) ==
  IF \E k \in 1..Len(alphabet) : CharAt(alphabet, k) = c
    THEN CHOOSE k \in 1..Len(alphabet) : CharAt(alphabet, k) = c
    ELSE 0

LowerChar(c) ==
  IF IndexIn(UpperCase, c) # 0 THEN CharAt(LowerCase, IndexIn(UpperCase, c)) ELSE c

\* String.prototype.toLowerCase
RECURSIVE ToLowerCase(_)
ToLowerCase(s) ==
  IF s = "" THEN "" ELSE LowerChar(CharAt(s, 1)) \o ToLowerCase(Tail1(s))

\* String.prototype.includes
Includes(s, sub) ==
  \E i \in 1..(Len(s) - Len(sub) + 1) : SubSeq(s, i, i + Len(sub) - 1) = sub

\* String.prototype.startsWith
StartsWith(s, prefix) ==
  Len(s) >= Len(prefix) /\ SubSeq(s, 1, Len(prefix)) = prefix

\* application/x-www-form-urlencoded, as URLSearchParams.toString serialises:
\* letters, digits and * - . _ stay, a space becomes +, the rest is %XX
Unreserved == UpperCase \o LowerCase \o "0123456789*-._"
Escaped == "'=,%()+/:<>"
EscapeCodes == <<"%27", "%3D", "%2C", "%25", "%28", "%29", "%2B", "%2F", "%3A",
                 "%3C", "%3E">>

EncodeChar(c) ==
  IF c = " " THEN "+"
  ELSE IF IndexIn(Unreserved, c) # 0 THEN c
  ELSE EscapeCodes[IndexIn(Escaped, c)]

\* character by character; the text is halved so that long texts stay shallow
RECURSIVE FormEncode(_)
FormEncode(s) ==
  IF s = "" THEN ""
  ELSE IF Len(s) = 1 THEN EncodeChar(s)
  ELSE LET half == Len(s) \div 2
       IN FormEncode(SubSeq(s, 1, half)) \o FormEncode(SubSeq(s, half + 1, Len(s)))

-----------------------------------------------------------------------------
(* SalesforceRestClient: pure parts *)

ToolingObjects ==
  <<"AsyncApexJob", "ApexClass", "ApexTrigger", "ApexPage", "ApexLog",
    "ApexCodeCoverage", "ApexCodeCoverageAggregate", "SymbolTable">>

\* the routing test with the lower-casing of the query left out
ContainsToolingObjectExact(soql) ==
  \E k \in DOMAIN ToolingObjects : Includes(soql, ToolingObjects[k])

\* toolingObjects.some(obj => soql.toLowerCase().includes(obj.toLowerCase()))
ContainsToolingObject(soql) ==
  \E k \in DOMAIN ToolingObjects :
    Includes(ToLowerCase(soql), ToLowerCase(ToolingObjects[k]))

\* mutant: the lower-cased text of the routing test is what is sent
ToolingQueryUrlLowered(soql) == "query/?" \o "q=" \o FormEncode(ToLowerCase(soql))

\* SalesforceToolingClient.query: the relative URL handed to toolingRequest
ToolingQueryUrl(soql) == "query/?" \o "q=" \o FormEncode(soql)

\* JSON.stringify of a string: quotes around it, and " \ and the line feed
\* escaped
JsonEscapeChar(c) ==
  IF c = "\"" THEN "\\\""
  ELSE IF c = "\\" THEN "\\\\"
  ELSE IF c = "\n" THEN "\\n"
  ELSE c

RECURSIVE JsonEscape(_)
JsonEscape(s) ==
  IF s = "" THEN "" ELSE JsonEscapeChar(CharAt(s, 1)) \o JsonEscape(Tail1(s))

\* the string written between quotes as it is
JsonStringRaw(s) == "\"" \o s \o "\""

JsonString(s) == "\"" \o JsonEscape(s) \o "\""

\* JSON.stringify({ Name: name, Body: body })
StringifyClass(name, body) ==
  "{\"Name\":" \o JsonString(name) \o ",\"Body\":" \o JsonString(body) \o "}"

NoOptions == [method |-> Undefined, body |-> Undefined, contentType |-> Undefined]

\* SalesforceToolingClient.create: URL and options handed to toolingRequest
ToolingCreateUrl(sobjectType) == "sobjects/" \o sobjectType \o "/"
ToolingCreateOptions(json) ==
  [method |-> "POST", body |-> json, contentType |-> "application/json"]

\* searchAsyncApexJobs: the SOQL text.  A parameter left out is Undefined, a
\* limit left out is 0 (`limit || 100` takes both for absent)
NoParams ==
  [status |-> Undefined, jobType |-> Undefined, apexClassName |-> Undefined,
   createdDateFrom |-> Undefined, createdDateTo |-> Undefined, limit |-> 0]

AsyncJobSelect ==
  "SELECT Id, Status, JobType, MethodName, JobItemsProcessed, TotalJobItems, "
    \o "NumberOfErrors, CompletedDate, CreatedDate, CreatedBy.Name, "
    \o "ApexClass.Name FROM AsyncApexJob WHERE 1=1"

\* `if (value) soql += text`
Clause(value, text) == IF Truthy(value) THEN text ELSE ""

\* the limit written as it was given
LimitAsGiven(p) == ToString(p.limit)

\* `searchParams.limit || 100`
LimitOf(p) == IF p.limit # 0 THEN ToString(p.limit) ELSE ToString(100)

AsyncJobSoql(p) ==
  AsyncJobSelect
    \o Clause(p.status, " AND Status = '" \o p.status \o "'")
    \o Clause(p.jobType, " AND JobType = '" \o p.jobType \o "'")
    \o Clause(p.apexClassName,
              " AND ApexClass.Name LIKE '%" \o p.apexClassName \o "%'")
    \o Clause(p.createdDateFrom, " AND CreatedDate >= " \o p.createdDateFrom)
    \o Clause(p.createdDateTo, " AND CreatedDate <= " \o p.createdDateTo)
    \o " ORDER BY CreatedDate DESC LIMIT " \o LimitOf(p)

ApiVersion == "59.0"

\* SalesforceAuth.getInstanceUrl
GetInstanceUrl == OrElse(instanceUrl, config.instanceUrl)

\* the axios config callApi builds
ApiConfig(endpoint, method, body, q) ==
  [method |-> method, url |-> endpoint, q |-> q,
   data |-> IF Truthy(body) /\ method \in {"POST", "PATCH"} THEN body ELSE Undefined]

NoRequest == [method |-> Undefined, url |-> Undefined, q |-> Undefined,
              data |-> Undefined]

\* the request interceptor, from the token on: header and URL
RequestInterceptor(cfg, token, inst) ==
  [method |-> cfg.method,
   url |-> IF ~StartsWith(cfg.url, "http")
             THEN inst \o "/services/data/v" \o ApiVersion \o "/" \o cfg.url
             ELSE cfg.url,
   q |-> cfg.q, data |-> cfg.data,
   authorization |-> "Bearer " \o token]

NotSent == [method |-> Undefined, url |-> Undefined, q |-> Undefined,
            data |-> Undefined, authorization |-> Undefined]

\* response bodies: Salesforce answers errors with an array of
\* {message, errorCode}; an object body may carry a message of its own
NoBody == [shape |-> "none", message |-> Undefined]
ArrayBody(msg) == [shape |-> "array", message |-> msg]
ObjectBody(msg) == [shape |-> "object", message |-> msg]

\* error.response.data?.message
DataMessage(data) == IF data.shape = "object" THEN data.message ELSE Undefined

HttpOk(data) ==
  [ok |-> TRUE, hasResponse |-> TRUE, status |-> 200, data |-> data,
   message |-> Undefined]
HttpError(status, text, data) ==
  [ok |-> FALSE, hasResponse |-> TRUE, status |-> status, data |-> data,
   message |-> "Request failed with status code " \o text]
NetworkError ==
  [ok |-> FALSE, hasResponse |-> FALSE, status |-> 0, data |-> NoBody,
   message |-> "Network Error"]

HttpOutcomes ==
  { HttpOk(ObjectBody(Undefined)),
    HttpError(401, "401", ArrayBody("Session expired or invalid")),
    HttpError(400, "400", ArrayBody("unexpected token: FORM")),
    HttpError(400, "400", ObjectBody("invalid cross reference id")),
    HttpError(500, "500", NoBody),
    NetworkError }

AuthFailedMessage == "Authentication failed. Please check your credentials."
BadRequestMessage == "Bad Request. Please check your request parameters."

\* the response interceptor that logs nothing
ResponseInterceptorSilent(error) == {}

\* the response interceptor's error handler: what it writes to console.error
\* (the error itself is passed on with Promise.reject)
ResponseInterceptor(error) ==
  (IF error.hasResponse /\ error.status = 401 THEN {AuthFailedMessage} ELSE {})
    \cup
  (IF error.hasResponse /\ error.status = 400
     THEN {OrElse(DataMessage(error.data), BadRequestMessage)} ELSE {})

\* mutant: a 401 answer sends the request through the interceptor again
AfterResponseRetry401(r) ==
  IF r.hasResponse /\ r.status = 401 THEN "gotToken" ELSE "done"

\* where a call stands once its response has passed the response interceptor:
\* callApi returns response.data or the rejection goes to the caller
AfterResponse(r) == "done"

\* outcomes of SalesforceAuth.toolingRequest for the tooling client
ToolingOutcomes ==
  { [ok |-> TRUE, hasResponse |-> TRUE, status |-> 200,
     data |-> ObjectBody(Undefined), message |-> Undefined],
    [ok |-> FALSE, hasResponse |-> FALSE, status |-> 0, data |-> NoBody,
     message |-> "Failed to authenticate with AuthInfo: No authorization information found"] }

\* what Salesforce answers to a create: {id, success, errors}
SaveResult(id, success, errors) ==
  [id |-> id, success |-> success, errors |-> errors]

CreateOutcomes ==
  { [ok |-> TRUE, hasResponse |-> TRUE, status |-> 201,
     data |-> SaveResult("01p5g00000A1bcd", TRUE, <<>>), message |-> Undefined],
    [ok |-> TRUE, hasResponse |-> TRUE, status |-> 200,
     data |-> SaveResult(Undefined, FALSE, <<"DUPLICATE_VALUE">>),
     message |-> Undefined],
    [ok |-> FALSE, hasResponse |-> FALSE, status |-> 0, data |-> NoBody,
     message |-> "Failed to authenticate with AuthInfo: No authorization information found"] }

\* a JavaScript array as a value of its own
JsArray(items) == [items |-> items]

\* what the tooling query answers: {totalSize, done, records}
QueryResult(records) ==
  [totalSize |-> Len(records), done |-> TRUE, records |-> JsArray(records)]

SearchOutcomes ==
  { [ok |-> TRUE, hasResponse |-> TRUE, status |-> 200,
     data |-> QueryResult(<<"707-job-1", "707-job-2">>), message |-> Undefined],
    [ok |-> TRUE, hasResponse |-> TRUE, status |-> 200,
     data |-> QueryResult(<<>>), message |-> Undefined],
    [ok |-> FALSE, hasResponse |-> FALSE, status |-> 0, data |-> NoBody,
     message |-> "Failed to authenticate with AuthInfo: No authorization information found"] }

NoReply == [kind |-> "none", ok |-> FALSE, hasResponse |-> FALSE, status |-> 0,
            data |-> NoBody, message |-> Undefined]
\* mutant: the rejection is a new error that keeps the message only
ReplyMessageOnly(kind, r) ==
  [kind |-> kind, ok |-> r.ok, hasResponse |-> FALSE,
   status |-> 0, data |-> NoBody, message |-> r.message]

Reply(kind, r) ==
  [kind |-> kind, ok |-> r.ok, hasResponse |-> r.hasResponse,
   status |-> r.status, data |-> r.data, message |-> r.message]
AuthFailure(msg) ==
  [kind |-> "error", ok |-> FALSE, hasResponse |-> FALSE, status |-> 0,
   data |-> NoBody, message |-> msg]

NoResult == [kind |-> "none", value |-> Undefined]
Returned(tok) == [kind |-> "token", value |-> tok]
Rejected(msg) == [kind |-> "error", value |-> msg]

-----------------------------------------------------------------------------
(* SalesforceMCPServer: the registered tools and what a tool call returns *)

\* one entry of this.tools; `handler` names the function the entry carries
Tool(name, handler) == [name |-> name, handler |-> handler]

\* registerAllTools: the one assignment of this.tools, in registration order
RegisterAllTools ==
  <<Tool("list_apex_classes", "apex"),
    Tool("execute_tooling_query", "query"),
    Tool("call_rest_api", "rest")>>

\* the names a tools/call request may carry
RequestNames ==
  {"list_apex_classes", "execute_tooling_query", "call_rest_api",
   "get_apex_clas", ""}

\* this.tools.find(t => t.name === name): the first entry of that name,
\* 0 for undefined
RECURSIVE FindTool(_, _, _)
FindTool(ts, name, i) ==
  IF i > Len(ts) THEN 0
  ELSE IF ts[i].name = name THEN i
  ELSE FindTool(ts, name, i + 1)

\* how `await tool.handler(args || {})` settles: the handler's own result
\* (which may itself carry isError), a thrown Error, or a thrown value that
\* is no Error
NoOutcome ==
  [threw |-> FALSE, isErrorObject |-> FALSE, message |-> Undefined,
   isError |-> FALSE, text |-> Undefined]
HandlerReturns(isError, text) ==
  [NoOutcome EXCEPT !.isError = isError, !.text = text]
HandlerThrows(isErrorObject, message) ==
  [NoOutcome EXCEPT !.threw = TRUE, !.isErrorObject = isErrorObject,
                    !.message = message]
HandlerOutcomes ==
  {HandlerReturns(FALSE, "Query Results (0 total):"),
   HandlerReturns(TRUE, "Error executing query: Network Error"),
   HandlerThrows(TRUE, NoTokenError),
   HandlerThrows(TRUE, ""),
   HandlerThrows(FALSE, "timeout")}

\* what the request handler hands back to the MCP server: a result, or an
\* error that left the handler
NoToolResult == [kind |-> "none", isError |-> FALSE, text |-> Undefined]
ToolResult(isError, text) ==
  [kind |-> "result", isError |-> isError, text |-> text]
ToolThrown(message) == [kind |-> "thrown", isError |-> FALSE, text |-> message]

\* the result for a name that find did not match
ToolNotFound(name) == ToolResult(TRUE, "Tool " \o name \o " not found")

\* error instanceof Error ? error.message : 'Unknown error'
ErrorMessage(o) == IF o.isErrorObject THEN o.message ELSE "Unknown error"

ToolFailedRethrown(name, o) == ToolThrown(o.message)

\* the catch block around the handler call
ToolFailed(name, o) ==
  ToolResult(TRUE, "Error executing tool " \o name \o ": " \o ErrorMessage(o))

\* try { return await tool.handler(args || {}) } catch (error) { ... }
AwaitHandler(name, o) ==
  IF o.threw THEN ToolFailed(name, o) ELSE ToolResult(o.isError, o.text)

\* one call in flight: the getAccessToken part (pc .. stale), the client
\* method around it (op .. reply) and the tool call (nHandler .. toolResult)
IdleTask ==
  [pc |-> "idle", cliThrew |-> FALSE, strategy |-> "none",
   result |-> NoResult, nCli |-> 0, nOauth |-> 0, via |-> "none",
   inTtl |-> FALSE, stale |-> FALSE,
   op |-> "none", arg |-> Undefined, route |-> "none", req |-> NoRequest,
   sent |-> NotSent, nHttp |-> 0, toolingUrl |-> Undefined, nTooling |-> 0,
   logged |-> {}, reply |-> NoReply,
   arg2 |-> Undefined, toolingOptions |-> NoOptions, params |-> NoParams,
   tool |-> 0, nHandler |-> 0, settled |-> NoOutcome, toolResult |-> NoToolResult]

\* a fresh call of a client method that goes through the HTTP client
RestCall(op, arg, cfg) ==
  [IdleTask EXCEPT !.op = op, !.arg = arg, !.route = "rest", !.req = cfg]

\* where a call continues once its getAccessToken has settled: the caller of
\* getAccessToken itself is done, the request interceptor goes on with a token
\* and passes a rejection on to the caller of the client method
Settled(rec, res) ==
  IF rec.op = "getAccessToken" THEN "done"
  ELSE IF res.kind = "token" THEN "gotToken" ELSE "done"

Finish(t, res, via) ==
  /\ task' = [task EXCEPT ![t].pc = Settled(task[t], res),
                          ![t].result = res, ![t].via = via,
                          ![t].reply = IF task[t].op # "getAccessToken"
                                          /\ res.kind = "error"
                                         THEN AuthFailure(res.value) ELSE @]
  /\ everReturned' = (everReturned \/ res.kind = "token")

-----------------------------------------------------------------------------
(* The state after construction *)

InitWith(configs) ==
  /\ config \in configs
  /\ accessToken = Undefined
  /\ instanceUrl = Undefined
  /\ tokenExpiresAt = NoTime
  /\ now = 0
  /\ task = [t \in Tasks |-> IdleTask]
  /\ calls = 0
  /\ oauthLog = {}
  /\ origin = [f \in SlotFields |-> Tag("none", "constructor")]
  /\ everReturned = FALSE
  /\ goodUntil = NoTime
  /\ goodUrl = Undefined
  /\ tools = RegisterAllTools

Init == InitWith(Configs)

-----------------------------------------------------------------------------
(* getAccessToken, one action per run-to-completion segment *)

CanCall(t) == task[t].pc \in {"idle", "done"} /\ calls < MaxCalls

\* entry of getAccessToken for the call rec: the cache test and, on a miss,
\* the synchronous CLI attempt (execSync blocks, authenticateWithSfCli has no
\* await of its own)
Enter(t, rec) ==
  /\ calls' = calls + 1
  /\ UNCHANGED <<tools, config, now, oauthLog>>
  /\ LET fresh == [rec EXCEPT
                     !.inTtl = (everReturned /\ now < goodUntil),
                     !.stale = (Truthy(accessToken) /\ TruthyNum(tokenExpiresAt)
                                  /\ now >= tokenExpiresAt)]
     IN IF CacheHit(accessToken, tokenExpiresAt, now)
          THEN /\ task' = [task EXCEPT ![t] =
                             [fresh EXCEPT
                                !.pc = Settled(rec, Returned(accessToken)),
                                !.via = "cache",
                                !.result = Returned(accessToken)]]
               /\ everReturned' = TRUE
               /\ NoWrite
          ELSE \E r \in CliOutcomes[config] :
                    /\ task' = [task EXCEPT ![t] =
                                  [fresh EXCEPT !.pc = "afterCli", !.nCli = 1,
                                                !.cliThrew = r.threw]]
                    /\ UNCHANGED everReturned
                    /\ IF r.threw THEN NoWrite
                       ELSE Write(StoreCli(r, now), Tag(t, "cli"))

\* a direct call of getAccessToken
GetAccessToken(t) ==
  /\ CanCall(t)
  /\ Enter(t, [IdleTask EXCEPT !.op = "getAccessToken"])

\* after `await this.authenticateWithSfCli()`: return the CLI token, or start
\* the configured OAuth exchange, or reject the configuration
AfterSfCli(t) ==
  /\ task[t].pc = "afterCli"
  /\ UNCHANGED <<tools, config, now, calls>>
  /\ NoWrite
  /\ IF ~task[t].cliThrew /\ Truthy(accessToken)
       THEN Finish(t, Returned(accessToken), "cli") /\ UNCHANGED oauthLog
     ELSE IF FallbackStrategy(config) = "invalid"
       THEN Finish(t, Rejected(ConfigError), "none") /\ UNCHANGED oauthLog
     ELSE IF ~StrategyReady(FallbackStrategy(config), config)
       THEN /\ Finish(t, Rejected(NotReadyError(FallbackStrategy(config))), "none")
            /\ UNCHANGED oauthLog
     ELSE /\ task' = [task EXCEPT ![t].pc = "awaitToken",
                                  ![t].strategy = FallbackStrategy(config),
                                  ![t].nOauth = @ + 1]
          /\ oauthLog' = oauthLog \cup
               {RequestFor(FallbackStrategy(config), config)}
          /\ UNCHANGED everReturned

\* the token endpoint answers: store the session, or rethrow the error
TokenResponse(t) ==
  /\ task[t].pc = "awaitToken"
  /\ UNCHANGED <<tools, config, now, calls, oauthLog>>
  /\ \E resp \in OAuthResponses :
       IF resp.ok
         THEN /\ Write(StoreOAuth(resp.data, now), Tag(t, task[t].strategy))
              /\ task' = [task EXCEPT ![t].pc = "afterAuth"]
              /\ UNCHANGED everReturned
         ELSE /\ NoWrite
              /\ Finish(t, Rejected(CatchRethrow(resp.error)), "none")

\* after `await this.authenticateWith...()`: the final token test
AfterAuthenticate(t) ==
  /\ task[t].pc = "afterAuth"
  /\ UNCHANGED <<tools, config, now, calls, oauthLog>>
  /\ NoWrite
  /\ IF ~Truthy(accessToken)
       THEN Finish(t, Rejected(NoTokenError), "none")
       ELSE Finish(t, Returned(accessToken), task[t].strategy)

\* time passes
Tick ==
  /\ now < MaxTicks * TickStep
  /\ now' = now + TickStep
  /\ UNCHANGED <<tools, config, task, calls, oauthLog, everReturned>>
  /\ NoWrite

Next ==
  \/ \E t \in Tasks : GetAccessToken(t)
  \/ \E t \in Tasks : AfterSfCli(t)
  \/ \E t \in Tasks : TokenResponse(t)
  \/ \E t \in Tasks : AfterAuthenticate(t)
  \/ Tick

Spec == Init /\ [][Next]_vars

-----------------------------------------------------------------------------
(* SalesforceRestClient, one action per run-to-completion segment *)

\* the inputs of the client: one caller, calls one after the other
ClientTasks == {"t1"}

\* SOQL texts: a tooling-object name or a near miss, in some spelling, at
\* some place of the text
Spellings ==
  { "AsyncApexJob", "ApexClass", "ApexTrigger", "ApexPage", "ApexLog",
    "ApexCodeCoverage", "ApexCodeCoverageAggregate", "SymbolTable",
    "asyncapexjob", "apexclass", "APEXTRIGGER", "aPEXpAGE", "apexLOG",
    "apexcodecoverage", "APEXCODECOVERAGEAGGREGATE", "symboltable",
    "Account", "ApexClas", "Apex Log", "Symbol_Table", "" }
Frames ==
  { [before |-> "", after |-> ""],
    [before |-> "SELECT Id FROM ", after |-> " LIMIT 1"],
    [before |-> "SELECT Id FROM Task WHERE Subject = 'My", after |-> "s'"] }
SoqlInputs == {f.before \o m \o f.after : f \in Frames, m \in Spellings}

RelativeNext == "/services/data/v59.0/query/01g5-2000"
ContinuationUrls ==
  { RelativeNext,
    "https://na1.salesforce.com" \o RelativeNext,
    "http://localhost:8080" \o RelativeNext,
    "query/01g5-2000",
    "/services/data/v59.0/tooling/query/ApexClass-2000" }

\* the routing test and the tooling URL of every input text
Routed == [s \in SoqlInputs |-> ContainsToolingObject(s)]
ToolingUrls == [s \in SoqlInputs |-> ToolingQueryUrl(s)]

Endpoints == {"limits", "sobjects/Account"}
Bodies == {[method |-> "GET", body |-> Undefined],
           [method |-> "POST", body |-> "{Name}"]}

\* callApi(endpoint, method, body): build the config and hand it to the HTTP
\* client, whose request interceptor starts with getAccessToken
CallApi(t) ==
  /\ CanCall(t)
  /\ \E e \in Endpoints, b \in Bodies :
       Enter(t, RestCall("callApi", e, ApiConfig(e, b.method, b.body, Undefined)))

\* query(soql): to the tooling client when the text names a tooling object,
\* else callApi('query', 'GET', null, {q: soql})
Query(t) ==
  /\ CanCall(t)
  /\ \E s \in SoqlInputs :
       IF Routed[s]
         THEN /\ task' = [task EXCEPT ![t] =
                            [IdleTask EXCEPT
                               !.pc = "awaitTooling", !.op = "query", !.arg = s,
                               !.route = "tooling",
                               !.toolingUrl = ToolingUrls[s],
                               !.nTooling = 1]]
              /\ calls' = calls + 1
              /\ UNCHANGED <<tools, config, now, oauthLog, everReturned>>
              /\ NoWrite
         ELSE Enter(t, RestCall("query", s, ApiConfig("query", "GET", Undefined, s)))

\* queryMore(nextRecordsUrl): httpClient.get(nextRecordsUrl)
QueryMore(t) ==
  /\ CanCall(t)
  /\ \E u \in ContinuationUrls :
       Enter(t, RestCall("queryMore", u, ApiConfig(u, "GET", Undefined, Undefined)))

\* the request interceptor after `await getAccessToken()`: read the instance
\* URL, set the header, complete the URL; the request goes out
Intercept(t) ==
  /\ task[t].pc = "gotToken"
  /\ task' = [task EXCEPT
                ![t].pc = "awaitHttp",
                ![t].sent = RequestInterceptor(task[t].req, task[t].result.value,
                                               GetInstanceUrl),
                ![t].nHttp = @ + 1]
  /\ UNCHANGED <<tools, config, now, calls, oauthLog, everReturned>>
  /\ NoWrite

\* the server answers or the transport fails: the response interceptor, then
\* the caller gets response.data or the rejection
HttpResponse(t) ==
  /\ task[t].pc = "awaitHttp"
  /\ \E r \in HttpOutcomes :
       task' = [task EXCEPT
                  ![t].pc = AfterResponse(r),
                  ![t].logged = IF r.ok THEN @ ELSE @ \cup ResponseInterceptor(r),
                  ![t].reply = Reply(IF r.ok THEN "data" ELSE "error", r)]
  /\ UNCHANGED <<tools, config, now, calls, oauthLog, everReturned>>
  /\ NoWrite

\* the tooling client's request settles
\* createApexClass(name, body): create('ApexClass', {Name, Body}), one POST
\* through toolingRequest
ClassNames == {"Foo", "Order_Helper2"}
ClassBodies ==
  { "public class Foo {}",
    "public class Foo { String s = \"a\\b\"; }",
    "public class Foo {\n  // \"\"\n}" }

CreateApexClass(t) ==
  /\ CanCall(t)
  /\ \E n \in ClassNames, b \in ClassBodies :
       task' = [task EXCEPT ![t] =
                  [IdleTask EXCEPT
                     !.pc = "awaitTooling", !.op = "createApexClass",
                     !.arg = n, !.arg2 = b, !.route = "tooling",
                     !.toolingUrl = ToolingCreateUrl("ApexClass"),
                     !.toolingOptions =
                        ToolingCreateOptions(StringifyClass(n, b)),
                     !.nTooling = 1]]
  /\ calls' = calls + 1
  /\ UNCHANGED <<tools, config, now, oauthLog, everReturned>>
  /\ NoWrite

\* searchAsyncApexJobs(searchParams): build the SOQL text, hand it to the
\* tooling client's query
SearchInputs ==
  { [status |-> a, jobType |-> b, apexClassName |-> c, createdDateFrom |-> d,
     createdDateTo |-> e, limit |-> n] :
      a \in {Undefined, "Completed", ""}, b \in {Undefined, "BatchApex"},
      c \in {Undefined, "TestBatch"}, d \in {Undefined, "2023-01-01T00:00:00Z"},
      e \in {Undefined, "2023-12-31T23:59:59Z"}, n \in {0, 50} }

SearchSoql == [p \in SearchInputs |-> AsyncJobSoql(p)]
SearchUrls == [p \in SearchInputs |-> ToolingQueryUrl(SearchSoql[p])]

SearchAsyncApexJobs(t) ==
  /\ CanCall(t)
  /\ \E p \in SearchInputs :
       task' = [task EXCEPT ![t] =
                  [IdleTask EXCEPT
                     !.pc = "awaitTooling", !.op = "searchAsyncApexJobs",
                     !.params = p, !.arg = SearchSoql[p], !.route = "tooling",
                     !.toolingUrl = SearchUrls[p], !.nTooling = 1]]
  /\ calls' = calls + 1
  /\ UNCHANGED <<tools, config, now, oauthLog, everReturned>>
  /\ NoWrite

\* what toolingRequest can answer to the request of a call
ToolingOutcomesOf(op) ==
  IF op = "createApexClass" THEN CreateOutcomes
  ELSE IF op = "searchAsyncApexJobs" THEN SearchOutcomes
  ELSE ToolingOutcomes

\* what the method hands to its caller of the answer r: searchAsyncApexJobs
\* returns result.records, the others the answer itself
ReturnOf(op, r) ==
  IF op = "searchAsyncApexJobs" /\ r.ok THEN [r EXCEPT !.data = r.data.records]
  ELSE r

\* mutant: the tooling client works on the REST client's SalesforceAuth, and a
\* failed connection drops that object's token
NoSeparateAuth(r) ==
  IF r.ok THEN [f \in {} |-> Undefined] ELSE [accessToken |-> Undefined]

\* the fields of the REST client's SalesforceAuth that a request of the
\* embedded tooling client assigns: none, the tooling client is constructed
\* without sharedAuth and works on a SalesforceAuth of its own
SeparateAuth(r) == [f \in {} |-> Undefined]

\* the tooling client's request settles
ToolingResponse(t) ==
  /\ task[t].pc = "awaitTooling"
  /\ \E r \in ToolingOutcomesOf(task[t].op) :
       /\ task' = [task EXCEPT
                     ![t].pc = "done",
                     ![t].reply = Reply(IF r.ok THEN "data" ELSE "error",
                                        ReturnOf(task[t].op, r))]
       /\ IF DOMAIN SeparateAuth(r) = {} THEN NoWrite
          ELSE Write(SeparateAuth(r), Tag(t, "tooling"))
  /\ UNCHANGED <<tools, config, now, calls, oauthLog, everReturned>>

InitClient == InitWith(ClientConfigs)

NextClient ==
  \/ \E t \in ClientTasks : CallApi(t)
  \/ \E t \in ClientTasks : Query(t)
  \/ \E t \in ClientTasks : QueryMore(t)
  \/ \E t \in ClientTasks : AfterSfCli(t)
  \/ \E t \in ClientTasks : TokenResponse(t)
  \/ \E t \in ClientTasks : AfterAuthenticate(t)
  \/ \E t \in ClientTasks : Intercept(t)
  \/ \E t \in ClientTasks : HttpResponse(t)
  \/ \E t \in ClientTasks : ToolingResponse(t)
  \/ Tick

SpecClient == InitClient /\ [][NextClient]_vars

\* a REST client and a direct caller of getAccessToken share one SalesforceAuth
NextShared ==
  \/ \E t \in ClientTasks : CallApi(t)
  \/ \E t \in Tasks \ ClientTasks : GetAccessToken(t)
  \/ \E t \in Tasks : AfterSfCli(t)
  \/ \E t \in Tasks : TokenResponse(t)
  \/ \E t \in Tasks : AfterAuthenticate(t)
  \/ \E t \in ClientTasks : Intercept(t)
  \/ \E t \in ClientTasks : HttpResponse(t)
  \/ Tick

SpecShared == InitClient /\ [][NextShared]_vars

\* the calls that go to the tooling client only
NextTooling ==
  \/ \E t \in ClientTasks : CreateApexClass(t)
  \/ \E t \in ClientTasks : SearchAsyncApexJobs(t)
  \/ \E t \in ClientTasks : ToolingResponse(t)

SpecTooling == InitClient /\ [][NextTooling]_vars

-----------------------------------------------------------------------------
(* SalesforceMCPServer, the tools/call request handler *)

\* the request arrives: the lookup, the not-found result, or the call of the
\* selected handler up to its await
CallTool(t) ==
  /\ CanCall(t)
  /\ calls' = calls + 1
  /\ \E name \in RequestNames :
       LET i == FindTool(tools, name, 1)
           rec == [IdleTask EXCEPT !.op = "callTool", !.arg = name]
       IN task' = [task EXCEPT ![t] =
                     IF i = 0
                       THEN [rec EXCEPT !.pc = "done",
                                        !.toolResult = ToolNotFound(name)]
                       ELSE [rec EXCEPT !.pc = "inHandler", !.nHandler = 1,
                                        !.tool = i]]
  /\ NoWrite
  /\ UNCHANGED <<tools, config, now, oauthLog, everReturned>>

\* the handler's promise settles and the request handler returns
HandlerSettles(t) ==
  /\ task[t].pc = "inHandler"
  /\ \E o \in HandlerOutcomes :
       task' = [task EXCEPT ![t].pc = "done", ![t].settled = o,
                            ![t].toolResult = AwaitHandler(task[t].arg, o)]
  /\ NoWrite
  /\ UNCHANGED <<tools, config, now, calls, oauthLog, everReturned>>

\* requests are served concurrently, each by its own run of the handler
NextServer ==
  \/ \E t \in Tasks : CallTool(t)
  \/ \E t \in Tasks : HandlerSettles(t)

SpecServer == InitClient /\ [][NextServer]_vars



-----------------------------------------------------------------------------
(* Properties of the token provider *)

NoCredentials(c) == ~HasJwtFields(c) /\ ~HasPasswordFields(c)
JwtOnly(c) == HasJwtFields(c) /\ ~Truthy(c.username) /\ ~Truthy(c.password)

Done(t) == task[t].pc = "done"
GotToken(t) == Done(t) /\ task[t].result.kind = "token"
Failed(t) == Done(t) /\ task[t].result.kind = "error"

\* the three fields of the slot were written by one and the same authentication
OneOrigin ==
  /\ origin.accessToken = origin.instanceUrl
  /\ origin.instanceUrl = origin.tokenExpiresAt

\* task t completes a call in this step
Completes(t) == task'[t].pc = "done" /\ task'[t] # task[t]

\* C2: once a getAccessToken call has returned a token, every later call made
\* before the expiry cached with that token is served from the cache: it
\* returns the cached token and makes no CLI call and no OAuth request.
C2_TokenReuse ==
  \A t \in Tasks :
    task[t].inTtl =>
      /\ GotToken(t) /\ task[t].via = "cache"
      /\ task[t].nCli = 0 /\ task[t].nOauth = 0

\* C3: a call that misses the cache makes exactly one pass through the
\* strategies (one CLI listing, at most one OAuth exchange), and the slot is
\* replaced in one piece: between any two segments its three fields come from
\* the same authentication.
C3_AtomicRefresh ==
  /\ OneOrigin
  /\ \A t \in Tasks :
       /\ task[t].nCli <= 1 /\ task[t].nOauth <= 1
       /\ (task[t].pc # "idle" /\ task[t].via # "cache") => task[t].nCli = 1
       /\ task[t].via \in {"jwt", "password"} => task[t].nOauth = 1

\* a call made after the cached expiry has re-authenticated over OAuth
C3_Witness ==
  \E t \in Tasks :
    /\ task[t].stale /\ GotToken(t) /\ task[t].via = "jwt"
    /\ origin.accessToken = Tag(t, "jwt")
    /\ tokenExpiresAt = now + TTL /\ now >= TTL

\* C4 as stated: without a privateKey+subject pair and without a
\* username+password pair every getAccessToken call fails with the
\* configuration error and no token request is made.
C4_AlwaysConfigError ==
  NoCredentials(config) =>
    /\ oauthLog = {}
    /\ \A t \in Tasks : Done(t) => task[t].result = Rejected(ConfigError)

\* C4 as amended: without either pair no token request is ever made, the only
\* tokens returned are those the CLI-session strategy stored, and a call whose
\* CLI attempt threw fails with the configuration error.
C4_ConfigErrorUnlessCli ==
  NoCredentials(config) =>
    /\ oauthLog = {}
    /\ origin.accessToken.by \in {"constructor", "cli"}
    /\ \A t \in Tasks :
         /\ task[t].nOauth = 0
         /\ Done(t) =>
              \/ task[t].result = Rejected(ConfigError)
              \/ GotToken(t) /\ task[t].via \in {"cache", "cli"}
         /\ (Done(t) /\ task[t].cliThrew) => task[t].result = Rejected(ConfigError)

\* no credentials, the CLI attempt threw, the call failed
C4_Witness ==
  /\ NoCredentials(config)
  /\ \E t \in Tasks :
       Failed(t) /\ task[t].cliThrew /\ task[t].nCli = 1
         /\ task[t].result.value = ConfigError

\* C5: with the JWT fields and no username/password configured, no token
\* request with grant type 'password' is ever issued.
C5_JwtOnlyNeverPassword ==
  JwtOnly(config) => \A r \in oauthLog : r.grant_type # "password"

\* JWT-only configuration, one call's exchange failed and another's succeeded
C5_Witness ==
  /\ JwtOnly(config)
  /\ \E t, u \in Tasks :
       /\ Failed(t) /\ task[t].nOauth = 1
       /\ GotToken(u) /\ task[u].via = "jwt"

C10_FailedAttemptKeepsToken ==
  [][CacheHit(accessToken, tokenExpiresAt, now) => Truthy(accessToken')]_vars

-----------------------------------------------------------------------------
(* Properties of the REST client *)

\* a letter equals itself and its other case
SameLetter(a, b) ==
  \/ a = b
  \/ \E k \in 1..Len(UpperCase) :
       {a, b} = {CharAt(UpperCase, k), CharAt(LowerCase, k)}

\* name occurs in s at some position, letters compared without regard to case
OccursIgnoringCase(name, s) ==
  \E i \in 1..(Len(s) - Len(name) + 1) :
    \A j \in 1..Len(name) : SameLetter(CharAt(s, i + j - 1), CharAt(name, j))

ToolingObjectNames ==
  { "AsyncApexJob", "ApexClass", "ApexTrigger", "ApexPage", "ApexLog",
    "ApexCodeCoverage", "ApexCodeCoverageAggregate", "SymbolTable" }

NamesToolingObject ==
  [s \in SoqlInputs |-> \E n \in ToolingObjectNames : OccursIgnoringCase(n, s)]

\* every instance URL a request can be built on
InstanceUrls ==
  {c.instanceUrl : c \in Configs} \cup {o.instanceUrl : o \in Orgs}
    \cup {r.data.instance_url : r \in {x \in OAuthResponses : x.ok}}

QueryEndpointUrls == {b \o "/services/data/v59.0/query" : b \in InstanceUrls}

RequestOut(t) == task[t].pc \in {"awaitHttp", "done"} /\ task[t].nHttp >= 1

\* C1: query(s) goes to the tooling client's query exactly when s contains,
\* compared without regard to case, one of the eight tooling-object names
\* anywhere in the text; every other s becomes a GET on the 'query' endpoint
\* with q = s.
C1_QueryRouting ==
  \A t \in Tasks :
    task[t].op = "query" =>
      IF NamesToolingObject[task[t].arg]
        THEN /\ task[t].route = "tooling"
             /\ task[t].nTooling = 1 /\ task[t].nHttp = 0 /\ task[t].nCli = 0
             /\ task[t].toolingUrl # Undefined
        ELSE /\ task[t].route = "rest" /\ task[t].nTooling = 0
             /\ task[t].req.method = "GET" /\ task[t].req.url = "query"
             /\ task[t].req.q = task[t].arg
             /\ task[t].nHttp <= 1
             /\ RequestOut(t) =>
                  /\ task[t].sent.method = "GET"
                  /\ task[t].sent.q = task[t].arg
                  /\ task[t].sent.url \in QueryEndpointUrls

\* a name in another case, inside a string literal, was answered by the
\* tooling client
C1_Witness ==
  \E t \in Tasks :
    /\ task[t].op = "query" /\ task[t].pc = "done"
    /\ task[t].arg = "SELECT Id FROM Task WHERE Subject = 'MyapexLOGs'"
    /\ task[t].route = "tooling" /\ task[t].reply.kind = "data"

\* C8: queryMore(url) sends its request to exactly the URL it was given:
\* nothing is put in front of it, it is not rewritten, and it is never handed
\* to the tooling client.
C8_QueryMoreUrlUntouched ==
  \A t \in Tasks :
    task[t].op = "queryMore" =>
      /\ task[t].route = "rest" /\ task[t].nTooling = 0
      /\ RequestOut(t) => task[t].sent.url = task[t].arg

Got401(t) ==
  /\ task[t].pc = "done" /\ task[t].reply.kind = "error"
  /\ task[t].reply.hasResponse /\ task[t].reply.status = 401

\* C9 as stated: on a 401 the caller receives a message that says 'check your
\* credentials', and exactly one HTTP request was sent for the call.
C9_CallerGetsCredentialsMessage ==
  \A t \in Tasks :
    Got401(t) =>
      /\ task[t].nHttp = 1
      /\ Includes(ToLowerCase(task[t].reply.message), "check your credentials")

\* C9 as amended: on a 401 the message 'Authentication failed. Please check
\* your credentials.' is written to console.error, the caller's promise is
\* rejected with the 401 error of the HTTP client as it came, and exactly one
\* HTTP request was sent for the call.
C9_LogsCredentialsMessage ==
  \A t \in Tasks :
    Got401(t) =>
      /\ task[t].nHttp = 1
      /\ AuthFailedMessage \in task[t].logged
      /\ \E r \in HttpOutcomes : ~r.ok /\ task[t].reply = Reply("error", r)

\* a continuation request was answered with 401
C9_Witness ==
  \E t \in Tasks :
    /\ Got401(t) /\ task[t].op = "queryMore"
    /\ task[t].logged = {AuthFailedMessage}

\* C11: a relative resource path p is requested at
\* instanceUrl + '/services/data/v' + configured apiVersion + '/' + p, with
\* the token provider's instance URL; an absolute URL is sent unchanged.
C11_ConfiguredVersionUrl ==
  \A t \in Tasks :
    RequestOut(t) =>
      IF StartsWith(task[t].req.url, "http")
        THEN task[t].sent.url = task[t].req.url
        ELSE \E b \in InstanceUrls :
               task[t].sent.url =
                 b \o "/services/data/v" \o config.apiVersion \o "/"
                   \o task[t].req.url

-----------------------------------------------------------------------------
(* Properties of the tooling client *)

\* reading a JSON string back: the text from position i (after the opening
\* quote) up to the closing quote, escapes undone
RECURSIVE ReadJsonString(_, _)
ReadJsonString(s, i) ==
  IF i > Len(s) THEN [value |-> "", next |-> 0]
  ELSE IF CharAt(s, i) = "\"" THEN [value |-> "", next |-> i + 1]
  ELSE IF CharAt(s, i) = "\\"
    THEN LET rest == ReadJsonString(s, i + 2)
             c == CharAt(s, i + 1)
         IN [value |-> (IF c = "n" THEN "\n" ELSE c) \o rest.value,
             next |-> rest.next]
  ELSE LET rest == ReadJsonString(s, i + 1)
       IN [value |-> CharAt(s, i) \o rest.value, next |-> rest.next]

Expect(s, i, text) ==
  i >= 1 /\ i + Len(text) - 1 <= Len(s) /\ SubSeq(s, i, i + Len(text) - 1) = text

\* JSON.parse of an object with the two string members Name and Body
ParseClass(s) ==
  LET open == "{\"Name\":\""
      mid == ",\"Body\":\""
      name == ReadJsonString(s, Len(open) + 1)
      body == ReadJsonString(s, name.next + Len(mid))
  IN IF /\ Expect(s, 1, open)
        /\ name.next # 0 /\ Expect(s, name.next, mid)
        /\ body.next # 0 /\ Expect(s, body.next, "}") /\ body.next = Len(s)
       THEN [ok |-> TRUE, Name |-> name.value, Body |-> body.value]
       ELSE [ok |-> FALSE, Name |-> "", Body |-> ""]

ParsedClasses ==
  [x \in {StringifyClass(n, b) : n \in ClassNames, b \in ClassBodies}
     |-> ParseClass(x)]

EndsWith(s, suffix) ==
  Len(s) >= Len(suffix) /\ SubSeq(s, Len(s) - Len(suffix) + 1, Len(s)) = suffix

IndexOf(s, sub) ==
  IF Includes(s, sub)
    THEN CHOOSE i \in 1..(Len(s) - Len(sub) + 1) :
           /\ SubSeq(s, i, i + Len(sub) - 1) = sub
           /\ \A j \in 1..(i - 1) : SubSeq(s, j, j + Len(sub) - 1) # sub
    ELSE 0

\* the five filters in their order: the value given, how the clause begins,
\* and the whole clause
Filters(p) ==
  << [value |-> p.status, head |-> "Status = '",
      clause |-> "Status = '" \o p.status \o "'"],
     [value |-> p.jobType, head |-> "JobType = '",
      clause |-> "JobType = '" \o p.jobType \o "'"],
     [value |-> p.apexClassName, head |-> "ApexClass.Name LIKE '%",
      clause |-> "ApexClass.Name LIKE '%" \o p.apexClassName \o "%'"],
     [value |-> p.createdDateFrom, head |-> "CreatedDate >= ",
      clause |-> "CreatedDate >= " \o p.createdDateFrom],
     [value |-> p.createdDateTo, head |-> "CreatedDate <= ",
      clause |-> "CreatedDate <= " \o p.createdDateTo] >>

\* a filter is supplied when it was given a non-empty value
Supplied(v) == v # Undefined /\ v # ""

\* the text q is the query the claim describes for the parameters p
MeetsSearchClaim(p, q) ==
  LET f == Filters(p)
      at(k) == IndexOf(q, " AND " \o f[k].clause)
      tail == " ORDER BY CreatedDate DESC LIMIT "
               \o (IF p.limit = 0 THEN "100" ELSE ToString(p.limit))
  IN /\ StartsWith(q, "SELECT ") /\ Includes(q, " FROM AsyncApexJob WHERE ")
     /\ \A k \in DOMAIN f :
          /\ Supplied(f[k].value) <=> Includes(q, f[k].head)
          /\ Supplied(f[k].value) => at(k) # 0
     /\ \A j, k \in DOMAIN f :
          (j < k /\ Supplied(f[j].value) /\ Supplied(f[k].value)) =>
            at(j) + Len(" AND " \o f[j].clause) = at(k)
              \/ \E m \in (j + 1)..(k - 1) : Supplied(f[m].value)
     /\ EndsWith(q, tail)
     /\ \A k \in DOMAIN f :
          (Supplied(f[k].value) /\ \A m \in (k + 1)..Len(f) : ~Supplied(f[m].value))
            => at(k) + Len(" AND " \o f[k].clause) = Len(q) - Len(tail) + 1

SearchMeetsClaim == [p \in SearchInputs |-> MeetsSearchClaim(p, SearchSoql[p])]

-----------------------------------------------------------------------------
(* Further properties of the token provider *)

\* C14: getInstanceUrl returns the configured instance URL while no
\* authentication has succeeded, and afterwards the instance URL that the most
\* recent successful authentication delivered.
C14_LastKnownInstanceUrl ==
  GetInstanceUrl = IF goodUrl = Undefined THEN config.instanceUrl ELSE goodUrl

\* the messages authenticateWithSfCli can throw
CliErrors ==
  UNION {{r.error : r \in {x \in CliOutcomes[c] : x.threw}} : c \in Configs}

\* C15: whatever makes the CLI strategy fail, getAccessToken swallows it and
\* goes on with the configured exchange: a call whose CLI attempt threw never
\* ends with the CLI's error, has issued its token request when JWT or
\* username/password credentials are configured, and returns the token when
\* that exchange has stored one.
C15_CliFailureSwallowed ==
  /\ [](\A t \in Tasks :
          task[t].cliThrew =>
            /\ Failed(t) => task[t].result.value \notin CliErrors
            /\ (task[t].pc \in {"awaitToken", "afterAuth", "done"}
                  /\ (HasJwtFields(config) \/ HasPasswordFields(config)))
                 => task[t].nOauth = 1
            /\ GotToken(t) => task[t].via \in {"jwt", "password"})
  /\ [][\A t \in Tasks :
          (/\ task[t].pc = "afterAuth" /\ task[t].cliThrew
           /\ origin.accessToken = Tag(t, task[t].strategy)
           /\ Truthy(accessToken)
           /\ task'[t].pc = "done")
            => task'[t].result = Returned(accessToken)]_vars

\* the CLI attempt threw and the username/password exchange supplied the token
C15_Witness ==
  \E t \in Tasks :
    /\ task[t].cliThrew /\ GotToken(t) /\ task[t].via = "password"
    /\ task[t].nCli = 1 /\ task[t].nOauth = 1
    /\ origin.accessToken = Tag(t, "password")

\* the errors the token endpoint can answer with
ExchangeErrors == {r.error : r \in {x \in OAuthResponses : ~x.ok}}

\* C16: a failed JWT or username/password exchange ends the call with the
\* exchange's own error: the call that was waiting for the token endpoint is
\* rejected with exactly that error, sends no further token request and stores
\* nothing; no call sends more than one token request, and a configuration
\* with JWT credentials never sends the username/password request.
C16_ExchangeFailurePropagates ==
  /\ [](/\ \A t \in Tasks : task[t].nOauth <= 1
        /\ HasJwtFields(config) => PasswordRequest(config) \notin oauthLog)
  /\ [][\A t \in Tasks :
          (task[t].pc = "awaitToken" /\ task'[t].pc = "done")
            => /\ task'[t].result.kind = "error"
               /\ task'[t].result.value \in ExchangeErrors
               /\ task'[t].nOauth = 1
               /\ oauthLog' = oauthLog
               /\ Slot' = Slot]_vars

\* JWT and username/password are both configured, the JWT exchange failed and
\* the caller holds its error after a single token request
C16_Witness ==
  \E t \in Tasks :
    /\ HasJwtFields(config) /\ HasPasswordFields(config)
    /\ Failed(t) /\ task[t].strategy = "jwt"
    /\ task[t].result.value \in ExchangeErrors
    /\ task[t].nOauth = 1
    /\ oauthLog = {JwtRequest(config)}

\* the listings `sf org list --json` reports with status 0
Listings == {AllOrgs(out.result) : out \in {o \in CliOutputs : o.kind = "json" /\ o.status = 0}}

\* org i of the listing is the one the selection rule names: the first entry
\* whose alias or username is the configured targetOrg, or without a targetOrg
\* the first default entry, or without a default the first connected entry
IsFirstWhere(listing, i, matching) ==
  /\ i \in matching
  /\ \A j \in matching : i <= j

NamedBy(c, listing, i) ==
  LET byTarget == {j \in DOMAIN listing :
                     listing[j].alias = c.targetOrg \/ listing[j].username = c.targetOrg}
      defaults == {j \in DOMAIN listing : listing[j].isDefaultUsername}
      connected == {j \in DOMAIN listing : listing[j].connectedStatus = "Connected"}
  IN IF c.targetOrg # Undefined THEN IsFirstWhere(listing, i, byTarget)
     ELSE IF defaults # {} THEN IsFirstWhere(listing, i, defaults)
     ELSE IsFirstWhere(listing, i, connected)

JsonOutput(listing) ==
  [kind |-> "json", status |-> 0,
   result |-> [nonScratchOrgs |-> listing, devHubs |-> <<>>, scratchOrgs |-> <<>>,
               sandboxes |-> <<>>, other |-> <<>>]]

\* what the CLI strategy stores for configuration c and a listing agrees with
\* the selection rule
SelectionAgrees(c, listing) ==
  LET r == SfCli(c, JsonOutput(listing))
      named == {i \in DOMAIN listing : NamedBy(c, listing, i)}
  IN IF r.threw
       THEN \A i \in named : listing[i].connectedStatus # "Connected"
       ELSE \E i \in named :
              /\ r.accessToken = listing[i].accessToken
              /\ r.instanceUrl = listing[i].instanceUrl

SelectionMeetsClaim ==
  \A c \in Configs : \A listing \in Listings : SelectionAgrees(c, listing)

\* C17: the CLI strategy selects the first listed org whose alias or username
\* is the configured targetOrg, or without a targetOrg the default org, or
\* without a default the first connected org; a token and instance URL cached
\* by the CLI strategy are those of the org so selected from some listing.
C17_OrgSelection ==
  /\ SelectionMeetsClaim
  /\ \A t \in Tasks :
       origin.accessToken = Tag(t, "cli") =>
         \E listing \in Listings : \E i \in DOMAIN listing :
           /\ NamedBy(config, listing, i)
           /\ listing[i].connectedStatus = "Connected"
           /\ accessToken = listing[i].accessToken
           /\ instanceUrl = listing[i].instanceUrl

\* no targetOrg is configured and the cache holds the token and URL of an org
\* that is not the default one: the first connected org was selected
C17_Witness ==
  \E t \in Tasks :
    /\ config.targetOrg = Undefined
    /\ origin.accessToken = Tag(t, "cli")
    /\ accessToken = OrgOther.accessToken
    /\ instanceUrl = OrgOther.instanceUrl
    /\ GotToken(t) /\ task[t].via = "cli"

\* the cached token is present and its hour is over
Expired == Truthy(accessToken) /\ TruthyNum(tokenExpiresAt) /\ now >= tokenExpiresAt

\* this step is the entry of a call of t
Enters(t) == calls' = calls + 1 /\ task'[t] # task[t]

\* C18: a call that finds the cached token expired runs the CLI strategy
\* first, whichever strategy had stored that token, and when the CLI strategy
\* does not throw the cache holds what it selected, stamped with a new expiry.
C18_ExpiredStartsAtCli ==
  /\ [](\A t \in Tasks : task[t].stale => task[t].nCli = 1)
  /\ [][\A t \in Tasks :
          (Enters(t) /\ Expired)
            => /\ task'[t].pc = "afterCli"
               /\ task'[t].nCli = 1 /\ task'[t].nOauth = 0
               /\ oauthLog' = oauthLog
               /\ ~task'[t].cliThrew
                    => /\ origin'.accessToken = Tag(t, "cli")
                       /\ \E r \in {x \in CliOutcomes[config] : ~x.threw} :
                            Slot' = Session(r.accessToken, r.instanceUrl, now)]_vars

\* only two calls were made: one obtained its token by username/password, the
\* other found that token expired and obtained the CLI token
C18_Witness ==
  \E t, u \in Tasks :
    /\ t # u /\ calls = 2
    /\ GotToken(u) /\ task[u].via = "password"
    /\ task[t].stale /\ GotToken(t) /\ task[t].via = "cli"
    /\ origin.accessToken = Tag(t, "cli")
    /\ accessToken = task[t].result.value

-----------------------------------------------------------------------------
(* Properties of the REST client and the token provider together *)

\* in this step t receives a 401 answer
Receives401(t) == task[t].pc = "awaitHttp" /\ Got401(t)'

\* a 401 answer changes no cached field and starts no authentication
C19_401IsFrame ==
  [][\A t \in Tasks :
       Receives401(t)
         => /\ Slot' = Slot /\ origin' = origin
            /\ oauthLog' = oauthLog
            /\ \A u \in Tasks : /\ task'[u].nCli = task[u].nCli
                                /\ task'[u].nOauth = task[u].nOauth]_vars

\* a call that asks the provider for a token after a 401, before the expiry
\* cached with the latest token, is served from the cache
C19_RetryServedFromCache ==
  [][\A t \in Tasks :
       (/\ Enters(t) /\ task'[t].nTooling = 0
        /\ \E u \in Tasks : Got401(u)
        /\ everReturned /\ now < goodUntil)
         => /\ task'[t].via = "cache"
            /\ task'[t].result = Returned(accessToken)
            /\ task'[t].nCli = 0 /\ task'[t].nOauth = 0
            /\ Slot' = Slot]_vars

\* C19: a 401 answer leaves token, instance URL and expiry as they are and
\* starts no authentication, and a call made afterwards before the cached
\* expiry is served the cached token without entering the strategies.
C19_401KeepsCache == C19_401IsFrame /\ C19_RetryServedFromCache

\* the call's getAccessToken has returned a token / has been rejected
TokenReturned(t) == task[t].result.kind = "token" /\ Truthy(task[t].result.value)
TokenRefused(t) == task[t].result.kind = "error"

\* a call whose getAccessToken was rejected has sent nothing and its caller
\* holds the rejection
RefusalReachesCaller(t) ==
  TokenRefused(t) =>
    /\ task[t].nHttp = 0 /\ task[t].nTooling = 0
    /\ task[t].sent = NotSent
    /\ task[t].pc = "done"
    /\ task[t].op # "getAccessToken" => task[t].reply = AuthFailure(task[t].result.value)

\* C20 as stated: a call that has sent a request, through the HTTP client or
\* through the tooling client, has had getAccessToken return a token before,
\* and a call whose getAccessToken was rejected has sent nothing and hands the
\* rejection to its caller.
C20_EveryRequestAfterToken ==
  \A t \in Tasks :
    /\ (task[t].nHttp + task[t].nTooling > 0) => TokenReturned(t)
    /\ task[t].nHttp > 0 => task[t].sent.authorization = "Bearer " \o task[t].result.value
    /\ RefusalReachesCaller(t)

\* what the code does: a call that has sent a request through the REST
\* client's HTTP client has sent one request, after its getAccessToken returned
\* a token, with the header 'Authorization: Bearer <that token>'; a call whose
\* getAccessToken was rejected has sent nothing and hands the rejection to its
\* caller; a query routed to the tooling client is sent without a
\* getAccessToken call.
HttpClientRequestAfterToken ==
  \A t \in Tasks :
    /\ task[t].nHttp > 0
         => /\ TokenReturned(t) /\ task[t].nHttp = 1
            /\ task[t].sent.authorization = "Bearer " \o task[t].result.value
    /\ RefusalReachesCaller(t)
    /\ task[t].nTooling > 0
         => /\ task[t].result = NoResult /\ task[t].nCli = 0 /\ task[t].nOauth = 0
            /\ task[t].nHttp = 0

\* a request went out with the token of the username/password exchange
SentWithPasswordToken ==
  \E t \in Tasks :
    /\ task[t].pc = "awaitHttp" /\ task[t].nHttp = 1
    /\ task[t].via = "password"
    /\ task[t].sent.authorization = "Bearer 00D-oauth"

-----------------------------------------------------------------------------
(* Retries, expiry and errors *)

\* C21: whatever the responses are, one call of a client method sends at most
\* one request to the Data or Tooling endpoint, and its getAccessToken makes at
\* most one CLI listing and at most one token exchange.
C21_NoRetry ==
  \A t \in Tasks :
    /\ task[t].nHttp + task[t].nTooling <= 1
    /\ task[t].nOauth <= 1 /\ task[t].nCli <= 1

\* a call was answered with 401 after its token exchange and is finished with
\* one request and one exchange made
C21_Witness ==
  \E t \in Tasks :
    /\ Got401(t) /\ task[t].nHttp = 1 /\ task[t].nOauth = 1
    /\ task[t].via = "password"

\* an authentication that delivered a token stores its fields in this step
StoresToken == Slot' # Slot /\ Truthy(accessToken')

\* every authentication that delivers a token sets the expiry to the time of
\* the store plus 3 600 000 ms
C22_FlatTtl ==
  [][StoresToken => tokenExpiresAt' = now + 3600000]_vars

\* a call entering before the expiry set by the latest successful
\* authentication is served from the cache, a call entering at or after it runs
\* the strategies again
C22_ExpiryDecides ==
  [][\A t \in Tasks :
       (Enters(t) /\ task'[t].nTooling = 0 /\ goodUntil # NoTime)
         => IF now < goodUntil
              THEN /\ task'[t].via = "cache" /\ task'[t].nCli = 0
                   /\ task'[t].result = Returned(accessToken)
              ELSE /\ task'[t].via # "cache" /\ task'[t].nCli = 1
                   /\ task'[t].pc = "afterCli"]_vars

\* C22: a successful authentication by any strategy caches the expiry
\* now + 3 600 000 ms; a getAccessToken call before that expiry is served from
\* the cache and a call at or after it authenticates again.
C22_FlatTtlDecidesReuse == C22_FlatTtl /\ C22_ExpiryDecides

\* the call of t went through the HTTP client and is over
Answered(t) == task[t].pc = "done" /\ task[t].nHttp = 1

\* C23: a call whose request was answered with a non-2xx status or failed in
\* the network is rejected with that very error: status, response body and
\* message are those of the transport error; only a 2xx answer is returned as
\* a result.
C23_TransportErrorUnmodified ==
  \A t \in Tasks :
    Answered(t) =>
      /\ task[t].reply.kind \in {"data", "error"}
      /\ task[t].reply.kind = "data"
           => task[t].reply.ok /\ task[t].reply.status = 200
      /\ task[t].reply.kind = "error"
           => \E r \in HttpOutcomes :
                /\ ~r.ok
                /\ task[t].reply.hasResponse = r.hasResponse
                /\ task[t].reply.status = r.status
                /\ task[t].reply.data = r.data
                /\ task[t].reply.message = r.message

\* a 500 answer reached the caller of callApi as the HTTP client's error
C23_Witness ==
  \E t \in Tasks :
    /\ Answered(t) /\ task[t].op = "callApi"
    /\ task[t].reply.kind = "error" /\ task[t].reply.hasResponse
    /\ task[t].reply.status = 500
    /\ task[t].reply.message = "Request failed with status code 500"

Got400(t) ==
  /\ Answered(t) /\ task[t].reply.kind = "error"
  /\ task[t].reply.hasResponse /\ task[t].reply.status = 400

\* C24: on a 400 the message the response body carries, or the generic
\* bad-request message when the body carries none, is what the caller's error
\* says or what the client reports for it on console.error.
C24_BodyMessageSurfaced ==
  \A t \in Tasks :
    Got400(t) =>
      LET surfaced == OrElse(task[t].reply.data.message, BadRequestMessage)
      IN task[t].reply.message = surfaced \/ surfaced \in task[t].logged

\* what the code does on a 400: the response interceptor writes one line to
\* console.error, the `message` property of the response body when the body is
\* an object that has one and the generic bad-request message otherwise, also
\* for a body that is an array of errors; the caller is rejected with the HTTP
\* client's error, whose message names the status and which keeps the body.
BadRequestLogged ==
  \A t \in Tasks :
    Got400(t) =>
      /\ task[t].logged =
           {IF task[t].reply.data.shape = "object" /\ Truthy(task[t].reply.data.message)
              THEN task[t].reply.data.message
              ELSE BadRequestMessage}
      /\ task[t].reply.message = "Request failed with status code 400"
      /\ \E r \in HttpOutcomes : r.status = 400 /\ task[t].reply.data = r.data

-----------------------------------------------------------------------------
(* What getAccessToken hands out *)

\* C25: a getAccessToken call that has settled either returned a token that is
\* a non-empty string or was rejected with an error message; it never returned
\* undefined or the empty string, also after the CLI selected a connected org
\* without a token or the token endpoint answered without access_token.
C25_NeverEmptyToken ==
  \A t \in Tasks :
    /\ task[t].result.kind = "token"
         => task[t].result.value # Undefined /\ task[t].result.value # ""
    /\ task[t].result.kind = "error"
         => task[t].result.value # Undefined /\ task[t].result.value # ""
    /\ (task[t].pc = "done" /\ task[t].nTooling = 0)
         => task[t].result.kind \in {"token", "error"}

\* the token endpoint answered 200 without access_token: the slot holds no
\* token and the call was rejected
C25_Witness ==
  \E t \in Tasks :
    /\ Failed(t) /\ task[t].result.value = NoTokenError
    /\ task[t].nOauth = 1
    /\ origin.accessToken = Tag(t, task[t].strategy)
    /\ accessToken = Undefined

\* token and instance URL as one authentication delivers them together
SessionPairs ==
  {[token |-> r.accessToken, url |-> r.instanceUrl] :
     r \in {x \in UNION {CliOutcomes[c] : c \in ClientConfigs} : ~x.threw}}
  \cup {[token |-> r.data.access_token, url |-> r.data.instance_url] :
          r \in {x \in OAuthResponses : x.ok}}

\* C26: a request the REST client has sent to a relative resource carries the
\* bearer token of an authentication and is addressed to the instance URL that
\* the same authentication delivered.
C26_TokenAndUrlAgree ==
  \A t \in Tasks :
    (task[t].nHttp = 1 /\ ~StartsWith(task[t].req.url, "http"))
      => \E s \in SessionPairs :
           /\ task[t].sent.authorization = "Bearer " \o s.token
           /\ StartsWith(task[t].sent.url, s.url \o "/services/data/")

\* C27: every token request, JWT or username/password, is posted to the
\* configured instance URL followed by '/services/oauth2/token', and the
\* audience of a JWT request is the configured instance URL, whatever instance
\* URL earlier authentications have cached.
C27_ConfiguredTokenEndpoint ==
  \A r \in oauthLog :
    /\ r.url = config.instanceUrl \o "/services/oauth2/token"
    /\ r.grant_type = JwtGrant => r.aud = config.instanceUrl
    /\ r.grant_type \in {JwtGrant, PasswordGrant}

\* a call found an expired token of an earlier authentication, whose instance
\* URL is not the configured one, and has posted its JWT request
C27_Witness ==
  \E t \in Tasks :
    /\ task[t].stale /\ task[t].pc = "awaitToken" /\ task[t].strategy = "jwt"
    /\ Truthy(instanceUrl) /\ instanceUrl # config.instanceUrl
    /\ JwtRequest(config) \in oauthLog

-----------------------------------------------------------------------------
(* One query, one endpoint *)

\* the character a %XX code or a + of a form-encoded text stands for
DecodeCode(code) ==
  IF \E k \in 1..Len(EscapeCodes) : EscapeCodes[k] = code
    THEN CharAt(Escaped, CHOOSE k \in 1..Len(EscapeCodes) : EscapeCodes[k] = code)
    ELSE "?"

\* the text a server reads from a form-encoded value
RECURSIVE FormDecode(_)
FormDecode(s) ==
  IF s = "" THEN ""
  ELSE IF CharAt(s, 1) = "+" THEN " " \o FormDecode(Tail1(s))
  ELSE IF CharAt(s, 1) = "%"
    THEN DecodeCode(SubSeq(s, 1, 3)) \o FormDecode(SubSeq(s, 4, Len(s)))
  ELSE CharAt(s, 1) \o FormDecode(Tail1(s))

\* the SOQL text that the tooling request of query(s) carries in its q parameter
ToolingTextSent ==
  [s \in SoqlInputs |->
     IF StartsWith(ToolingUrls[s], "query/?q=")
       THEN FormDecode(SubSeq(ToolingUrls[s], 10, Len(ToolingUrls[s])))
       ELSE Undefined]

-----------------------------------------------------------------------------
(* The two SalesforceAuth objects of one REST client *)

-----------------------------------------------------------------------------
(* C30 *)

RegisteredNames == {tools[i].name : i \in 1..Len(tools)}

ToolCallDone(t) == task[t].op = "callTool" /\ task[t].pc = "done"

\* C30: the tool dispatcher never lets an error escape a tool call: a request
\* naming a tool that is not registered returns a result with isError true
\* and the text 'Tool <name> not found' without running any handler, an
\* exception thrown by the selected handler is returned as a result with
\* isError true, and no call changes the set of registered tools.
C30_Contained ==
  \A t \in Tasks :
    ToolCallDone(t) =>
      /\ task[t].toolResult.kind = "result"
      /\ task[t].arg \notin RegisteredNames =>
           /\ task[t].toolResult.isError
           /\ task[t].toolResult.text = "Tool " \o task[t].arg \o " not found"
           /\ task[t].nHandler = 0
      /\ task[t].settled.threw => task[t].toolResult.isError

C30_ToolsKept == [][tools' = tools]_vars

C30_DispatcherContainsErrors == []C30_Contained /\ C30_ToolsKept

\* one request named no registered tool, another ran a handler that threw
C30_Witness ==
  \E t, u \in Tasks :
    /\ ToolCallDone(t) /\ task[t].arg \notin RegisteredNames
    /\ task[t].toolResult.isError /\ task[t].nHandler = 0
    /\ ToolCallDone(u) /\ task[u].settled.threw /\ task[u].nHandler = 1
    /\ task[u].toolResult.kind = "result" /\ task[u].toolResult.isError

====
